---- MODULE Spec2Model ----
(***************************************************************************)
(* git-ls: the concurrent status-collection engine of                      *)
(* src/unnamed/part_000 (the latest iteration of the tool).                *)
(*                                                                         *)
(* main() enumerates the sub-directories of the target paths, launches one *)
(* makeDescriptor task per folder in forward order, waits 1000 ms,         *)
(* launches a second family in reverse order, polls the shared result map  *)
(* descriptorsHashMap until it holds as many keys as there are folder      *)
(* references, then filters, sorts and prints.                             *)
(*                                                                         *)
(* Granularity.  Node runs JavaScript on one thread: a task runs from the  *)
(* settlement of one awaited call to the issue of the next await without   *)
(* interruption, and the .then(callback) of a task that returns runs in    *)
(* the same microtask drain.  Every action below is one such run.  Awaits  *)
(* whose continuation touches neither descriptorsHashMap nor longestName   *)
(* are taken together with the next continuation that does.                *)
(*                                                                         *)
(* Strings.  Folder names are sequences of one-character strings, so that  *)
(* concatenation, length and the order of localeCompare can be computed.   *)
(* Branches, URLs and state tokens are TLA+ strings: only their length and *)
(* emptiness are used by the program.                                      *)
(*                                                                         *)
(* Optional values.  A JavaScript value that may be undefined is <<>> when *)
(* undefined and <<v>> when it is v.                                       *)
(***************************************************************************)
EXTENDS Integers, Sequences, FiniteSets, TLC

VARIABLES
    targets,             \* main.targets: the target paths, after defaulting
    disk,                \* the file system: what readdir returns for a target
    options,             \* options.onlyGit, .onlyWithStatus, .shortStatusDisplay
    pcMain,              \* position of main()
    targetIdx,           \* index of the target the enumeration loop is at
    filteredFolders,     \* main.filteredFolders
    promises,            \* main.promises: one launched task per element
    resolvedPromises,    \* main.resolvedPromises
    descriptorsHashMap,  \* the result map, as its own keys in insertion order
    longestName,         \* the column-width registry
    descriptors,         \* main.descriptors: the filtered, sorted descriptors
    output,              \* the lines printed by console.log, in order
    roundFailuresLeft    \* failed divergence rounds the environment may still cause

vars == <<targets, disk, options, pcMain, targetIdx, filteredFolders, promises,
          resolvedPromises, descriptorsHashMap, longestName, descriptors,
          output,
          roundFailuresLeft>>

(* Bounds of the model *)

MaxTargets == 2

MaxFolders == 2

MaxRoundFailures == 1

(* Program constants *)

attemptsMax == 10

baseTimeout == 2000

timeoutIncrement == 500


(* Strings *)

\* The characters of folder names, in the order localeCompare gives them
\* (punctuation before letters, letters alphabetically).
Alphabet ==
    <<".", "/", "a", "b", "c", "n", "o", "r", "s", "t", "u">>

Rank(c) == CHOOSE i \in 1..Len(Alphabet) : Alphabet[i] = c

\* String.prototype.localeCompare.call(a, b): negative, zero or positive
RECURSIVE localeCompare(_, _)
localeCompare(a, b) ==
    IF a = <<>> THEN (IF b = <<>> THEN 0 ELSE -1)
    ELSE IF b = <<>> THEN 1
    ELSE IF Rank(a[1]) < Rank(b[1]) THEN -1
    ELSE IF Rank(a[1]) > Rank(b[1]) THEN 1
    ELSE localeCompare(Tail(a), Tail(b))

\* s.padEnd(n, " ") on a folder name
RECURSIVE padEndChars(_, _)
padEndChars(s, n) == IF Len(s) >= n THEN s ELSE padEndChars(Append(s, " "), n)

\* s.padEnd(n, " ") on a string
RECURSIVE padEnd(_, _)
padEnd(s, n) == IF Len(s) >= n THEN s ELSE padEnd(s \o " ", n)

\* Truthy, were the test "is not undefined": an empty string passes
Truthy_Defined(opt) == opt # <<>>

\* the truthiness of an optional string: defined and not empty
Truthy(opt) == opt # <<>> /\ opt[1] # ""

Range(f) == {f[i] : i \in DOMAIN f}

(* The column-width registry: longestName, setLongestName, getLongestName *)

Max(a, b) == IF a >= b THEN a ELSE b

getLongestName(reg, key) == IF key \in DOMAIN reg THEN reg[key] ELSE 0

\* The registry after setLongestName(key, string) for a string of length len:
\* the key is created at 0 when missing, then raised to len when len is larger.
setLongestName(reg, key, len) ==
    [k \in DOMAIN reg \cup {key} |->
        IF k = key THEN Max(getLongestName(reg, key), len) ELSE reg[k]]

(* The display-mode table.  The short symbols are one UTF-16 unit each; they
   are written here as one ASCII character each. *)
stateDisplayMode ==
    [short |-> [needsGitPull |-> "v", needsGitPush |-> "^",
                needsGitPullAndPush |-> "x",
                hasPendingChangesFromTrackedFiles |-> "!",
                needsGitCommit |-> "+", hasUntracked |-> "?", joiner |-> ""],
     full  |-> [needsGitPull |-> "pull", needsGitPush |-> "push",
                needsGitPullAndPush |-> "pull push",
                hasPendingChangesFromTrackedFiles |-> "add",
                needsGitCommit |-> "commit", hasUntracked |-> "track",
                joiner |-> " "]]

\* Array.prototype.join
RECURSIVE join(_, _)
join(ds, joiner) ==
    IF ds = <<>> THEN ""
    ELSE IF Len(ds) = 1 THEN ds[1]
    ELSE ds[1] \o joiner \o join(Tail(ds), joiner)

\* stateDisplayParts, were the pull test made first and alone
stateDisplayParts_PullFirst(d, short) ==
    LET s == IF short THEN stateDisplayMode.short ELSE stateDisplayMode.full
    IN  (IF d.needsGitPull THEN <<s.needsGitPull>>
         ELSE IF d.needsGitPush THEN <<s.needsGitPush>>
         ELSE <<>>)
        \o (IF d.hasPendingChangesFromTrackedFiles
            THEN <<s.hasPendingChangesFromTrackedFiles>> ELSE <<>>)
        \o (IF d.needsGitCommit THEN <<s.needsGitCommit>> ELSE <<>>)
        \o (IF d.hasUntracked THEN <<s.hasUntracked>> ELSE <<>>)

\* the state tokens of a descriptor, in the order they are pushed
stateDisplayParts(d, short) ==
    LET s == IF short THEN stateDisplayMode.short ELSE stateDisplayMode.full
    IN  (IF d.needsGitPull /\ d.needsGitPush THEN <<s.needsGitPullAndPush>>
         ELSE IF d.needsGitPush THEN <<s.needsGitPush>>
         ELSE IF d.needsGitPull THEN <<s.needsGitPull>>
         ELSE <<>>)
        \o (IF d.hasPendingChangesFromTrackedFiles
            THEN <<s.hasPendingChangesFromTrackedFiles>> ELSE <<>>)
        \o (IF d.needsGitCommit THEN <<s.needsGitCommit>> ELSE <<>>)
        \o (IF d.hasUntracked THEN <<s.hasUntracked>> ELSE <<>>)

\* the state label: the joined tokens, in brackets unless empty
stateDisplay(parts, short) ==
    LET s      == IF short THEN stateDisplayMode.short ELSE stateDisplayMode.full
        joined == join(parts, s.joiner)
    IN  IF Len(joined) > 0 THEN "[" \o joined \o "]" ELSE joined

(* The environment: target paths, directory listings, repositories *)

TargetNames == {<<".">>, <<"a">>}

\* the name of the folder reference for entry e of a target (the .map of main)
FolderName(target, e) == IF target = <<".">> THEN e ELSE target \o <<"/">> \o e

\* what a repository answers to the probes when they succeed.  A probe may
\* succeed at one time and fail at another, unless the repository is stable:
\* then the probes named in failing fail each time they are run and the others
\* succeed each time.
NotARepo ==
    [isGit |-> FALSE, branch |-> "", dirty |-> FALSE, remote |-> <<>>,
     untracked |-> FALSE, unstaged |-> FALSE, staged |-> FALSE,
     ahead |-> FALSE, behind |-> FALSE, merging |-> FALSE,
     stable |-> FALSE, failing |-> {}]

\* filterDirectories, were regular files kept too
RECURSIVE filterDirectories_KeepsFiles(_)
filterDirectories_KeepsFiles(entries) ==
    IF entries = <<>> THEN <<>>
    ELSE (IF entries[1].kind \in {"dir", "file"} THEN <<entries[1]>> ELSE <<>>)
         \o filterDirectories_KeepsFiles(Tail(entries))

\* the entries of a listing that lstatSync reports as directories
RECURSIVE filterDirectories(_)
filterDirectories(entries) ==
    IF entries = <<>> THEN <<>>
    ELSE (IF entries[1].kind = "dir" THEN <<entries[1]>> ELSE <<>>)
         \o filterDirectories(Tail(entries))

\* targetFilteredFolders: the directories of a listing, named after their target
targetFilteredFolders(target, entries) ==
    LET dirs == filterDirectories(entries)
    IN  [i \in 1..Len(dirs) |-> FolderName(target, dirs[i].name)]

\* the repository behind a folder reference
RepoAt(folder) ==
    LET hits == {e \in UNION {Range(disk[t].entries) : t \in Range(targets)} :
                    \E t \in Range(targets) : FolderName(t, e.name) = folder}
    IN  (CHOOSE e \in hits : TRUE).repo

(* The result map *)

\* the names every JavaScript object inherits from Object.prototype; one of
\* them stands for all (toString, valueOf, hasOwnProperty, ...)
ObjectPrototypeKeys == {<<"c", "o", "n", "s", "t", "r", "u", "c", "t", "o", "r">>}

\* Object.keys(descriptorsHashMap)
OwnKeys(map) == {map[i].key : i \in 1..Len(map)}

\* the test descriptorsHashMap[name] of the callback and of the retry loop:
\* an own entry is an object and truthy; so is an inherited property
Published(map, name) == name \in OwnKeys(map) \/ name \in ObjectPrototypeKeys

\* callback, were its early return missing: every completion inserts
callback_NoDedup(map, i, d) == Append(map, [key |-> d.name, d |-> i])

\* callback, were a later completion to replace the entry of its folder
callback_LastWins(map, i, d) ==
    IF d.name \in OwnKeys(map)
    THEN [k \in 1..Len(map) |->
             IF map[k].key = d.name THEN [key |-> d.name, d |-> i] ELSE map[k]]
    ELSE Append(map, [key |-> d.name, d |-> i])

\* the map after callback(d), d being the descriptor of task i
callback(map, i, d) ==
    IF Published(map, d.name) THEN map
    ELSE Append(map, [key |-> d.name, d |-> i])

(* makeDescriptor: the collector task of one folder reference *)

\* the descriptor d as makeDescriptor creates it, the stat of folder/.git issued.
\* Fields the code leaves undefined until their probe settles and never reads
\* before hold the value the probe's failure would leave; attempts and timeout
\* are the retry loop's counter and the timeout of its latest round, rounds
\* counts the fetch subprocesses started, exit tells how the loop was left,
\* timeEnd tells whether d.timeEnd has been assigned (clock values are not kept).
NewTask(folder) ==
    [name |-> folder, pc |-> "stat", isGit |-> FALSE, branch |-> "",
     isDirty |-> FALSE, remoteOriginUrl |-> <<>>, hasUntracked |-> FALSE,
     hasPendingChangesFromTrackedFiles |-> FALSE, needsGitCommit |-> FALSE,
     needsGitPush |-> FALSE, needsGitPull |-> FALSE, isInMergeState |-> FALSE,
     stateDisplayParts |-> <<>>, stateDisplay |-> "",
     attempts |-> 0, timeout |-> 0, rounds |-> 0, exit |-> "none",
     timeEnd |-> FALSE]

\* the process is running: it has neither died of an unhandled rejection nor
\* failed in the enumeration
Alive == pcMain \notin {"crashed", "failed"}

\* Task i throws out of makeDescriptor: its promise rejects and nothing handles
\* the rejection, which ends the process (the tool needs Node 18, where an
\* unhandled rejection is fatal).  Nothing runs any more.
Rejects(i) ==
    /\ pcMain' = "crashed"
    /\ promises' = [promises EXCEPT ![i].pc = "rejected"]
    /\ UNCHANGED <<targets, disk, options, targetIdx, filteredFolders,
                   resolvedPromises, descriptorsHashMap, longestName,
                   descriptors, output, roundFailuresLeft>>

\* Task i returns descriptor d: .then(callback) runs with it.
Returns(i, d) ==
    /\ promises' = [promises EXCEPT ![i] = [d EXCEPT !.pc = "done",
                                                     !.timeEnd = TRUE]]
    /\ resolvedPromises' = resolvedPromises + 1
    /\ descriptorsHashMap' = callback(descriptorsHashMap, i, d)

\* roundTimeout, were every round given the base timeout
roundTimeout_Flat(attempts) == baseTimeout

\* the timeout of the round started with `attempts` attempts left
roundTimeout(attempts) == baseTimeout + (attemptsMax - attempts) * timeoutIncrement

\* LoopTop, were the loop abandoned whether or not the folder is published
LoopTop_AbandonsUnpublished(d) ==
    IF d.attempts <= 0 THEN [d EXCEPT !.pc = "merge"]
    ELSE [d EXCEPT !.pc = "merge", !.exit = "cancelled"]

\* LoopTop, were the result map not consulted
LoopTop_NoEarlyExit(d) ==
    IF d.attempts <= 0 THEN [d EXCEPT !.pc = "merge"]
    ELSE [d EXCEPT !.pc = "fetch", !.rounds = @ + 1,
                   !.timeout = roundTimeout(d.attempts)]

\* The top of the retry loop, while (attempts > 0): abandon when the folder is
\* published (the thrown "cancelled" is caught outside the loop), start a
\* round otherwise.
LoopTop(d) ==
    IF d.attempts <= 0 THEN [d EXCEPT !.pc = "merge"]
    ELSE IF Published(descriptorsHashMap, d.name)
    THEN [d EXCEPT !.pc = "merge", !.exit = "cancelled"]
    ELSE [d EXCEPT !.pc = "fetch", !.rounds = @ + 1,
                   !.timeout = roundTimeout(d.attempts)]

\* roundFailed, were the attempt not counted
roundFailed_NoDecrement(d) == [d EXCEPT !.pc = "delay"]

\* roundFailed, were the error of the last attempt not caught outside the loop
roundFailed_Throws(d) ==
    IF d.attempts - 1 = 0
    THEN [d EXCEPT !.attempts = 0, !.pc = "rejected", !.exit = "exhausted"]
    ELSE [d EXCEPT !.attempts = @ - 1, !.pc = "delay"]

\* The catch block of a round: one attempt less; with none left the error is
\* thrown again and caught outside the loop, otherwise the task sleeps 500 ms.
roundFailed(d) ==
    IF d.attempts - 1 = 0
    THEN [d EXCEPT !.attempts = 0, !.pc = "merge", !.exit = "exhausted"]
    ELSE [d EXCEPT !.attempts = @ - 1, !.pc = "delay"]

\* StatGit, were the outcome of the stat ignored
StatGit_AlwaysGit(i) ==
    /\ Alive
    /\ promises[i].pc = "stat"
    /\ promises' = [promises EXCEPT ![i].isGit = TRUE, ![i].pc = "branch"]
    /\ UNCHANGED <<targets, disk, options, pcMain, targetIdx, filteredFolders,
                   resolvedPromises, descriptorsHashMap,
                   longestName, descriptors, output, roundFailuresLeft>>

\* StatGit, were the descriptor returned as soon as the stat has settled
StatGit_ReturnsAtOnce(i) ==
    /\ Alive
    /\ promises[i].pc = "stat"
    /\ Returns(i, [promises[i] EXCEPT !.isGit = RepoAt(promises[i].name).isGit])
    /\ UNCHANGED <<targets, disk, options, pcMain, targetIdx, filteredFolders,
                   longestName, descriptors, output, roundFailuresLeft>>

\* The stat of folder/.git settles: not a repository, return; otherwise ask for
\* the current branch.
StatGit(i) ==
    /\ Alive
    /\ promises[i].pc = "stat"
    /\ LET d == promises[i]
       IN  IF RepoAt(d.name).isGit
           THEN /\ promises' = [promises EXCEPT ![i].isGit = TRUE, ![i].pc = "branch"]
                /\ UNCHANGED <<resolvedPromises, descriptorsHashMap>>
           ELSE Returns(i, d)
    /\ UNCHANGED <<targets, disk, options, pcMain, targetIdx, filteredFolders,
                   longestName, descriptors, output, roundFailuresLeft>>

\* whether a command run in repository r exits without error: either, unless
\* the repository is stable
Succeeds(r, probe) ==
    IF r.stable THEN {probe \notin r.failing} ELSE BOOLEAN

\* git branch --show-current settles (not guarded: a failure rejects the task).
ProbeBranch(i) ==
    /\ Alive
    /\ promises[i].pc = "branch"
    /\ \E ok \in Succeeds(RepoAt(promises[i].name), "branch") :
        LET d      == promises[i]
            branch == RepoAt(d.name).branch
        IN  IF ok
            THEN /\ promises' = [promises EXCEPT ![i].branch = branch,
                                                 ![i].pc = "remote"]
                 /\ longestName' = setLongestName(longestName, "branch", Len(branch))
                 /\ UNCHANGED <<targets, disk, options, pcMain, targetIdx,
                                filteredFolders, resolvedPromises,
                                descriptorsHashMap, descriptors, output,
                                roundFailuresLeft>>
            ELSE Rejects(i)

\* what a guarded probe leaves in its field: the answer, or the value the
\* field has when the probe fails
Guarded(answer, default) == {answer, default}

\* what the guarded probe of repository r leaves in its field
Answers(r, probe, answer, default) ==
    IF r.stable THEN {IF probe \in r.failing THEN default ELSE answer}
    ELSE Guarded(answer, default)

\* git status --porcelain (not guarded) and git remote get-url origin (guarded)
\* settle.  Without a remote the second command fails.
ProbeRemote(i) ==
    /\ Alive
    /\ promises[i].pc = "remote"
    /\ \E statusOk \in Succeeds(RepoAt(promises[i].name), "status") :
       \E url \in Answers(RepoAt(promises[i].name), "remote",
                           RepoAt(promises[i].name).remote, <<>>) :
        IF ~statusOk THEN Rejects(i)
        ELSE /\ promises' =
                    [promises EXCEPT
                        ![i].isDirty = RepoAt(promises[i].name).dirty,
                        ![i].remoteOriginUrl = url,
                        ![i].pc = "local"]
             /\ longestName' =
                    IF url # <<>>
                    THEN setLongestName(longestName, "remoteOriginUrl", Len(url[1]))
                    ELSE longestName
             /\ UNCHANGED <<targets, disk, options, pcMain, targetIdx,
                            filteredFolders, resolvedPromises,
                            descriptorsHashMap, descriptors, output,
                            roundFailuresLeft>>

\* git ls-files --others (not guarded), git diff, git diff --staged and
\* git log @{u}.. (guarded) settle; then the divergence check starts when a
\* remote URL is set.
ProbeLocal(i) ==
    /\ Alive
    /\ promises[i].pc = "local"
    /\ LET d == promises[i]
           r == RepoAt(d.name)
       IN  \E untrackedOk \in Succeeds(r, "untracked") :
           \E pending \in Answers(r, "diff", r.unstaged, FALSE) :
           \E commit \in Answers(r, "staged", r.staged, FALSE) :
           \E push \in Answers(r, "push", r.ahead, FALSE) :
            LET d1 == [d EXCEPT
                          !.hasUntracked = r.untracked,
                          !.hasPendingChangesFromTrackedFiles = pending,
                          !.needsGitCommit = commit,
                          !.needsGitPush = push,
                          !.needsGitPull = FALSE]
            IN  IF ~untrackedOk THEN Rejects(i)
                ELSE /\ promises' =
                            [promises EXCEPT ![i] =
                                IF Truthy(d1.remoteOriginUrl)
                                THEN LoopTop([d1 EXCEPT !.attempts = attemptsMax])
                                ELSE [d1 EXCEPT !.pc = "merge", !.exit = "noremote"]]
                     /\ UNCHANGED <<targets, disk, options, pcMain, targetIdx,
                                    filteredFolders, resolvedPromises,
                                    descriptorsHashMap, longestName, descriptors,
                                    output, roundFailuresLeft>>

\* FetchRound, were the break after a successful round missing
FetchRound_NoBreak(i) ==
    /\ Alive
    /\ promises[i].pc = "fetch"
    /\ \E ok \in Succeeds(RepoAt(promises[i].name), "fetch") :
        LET d == promises[i]
        IN  IF ok
            THEN /\ promises' = [promises EXCEPT ![i] =
                        LoopTop([d EXCEPT !.needsGitPull = RepoAt(d.name).behind,
                                          !.exit = "success"])]
                 /\ UNCHANGED roundFailuresLeft
            ELSE /\ RepoAt(d.name).stable \/ roundFailuresLeft > 0
                 /\ roundFailuresLeft' = IF RepoAt(d.name).stable
                                         THEN roundFailuresLeft
                                         ELSE roundFailuresLeft - 1
                 /\ promises' = [promises EXCEPT ![i] = roundFailed(d)]
    /\ UNCHANGED <<targets, disk, options, pcMain, targetIdx, filteredFolders,
                   resolvedPromises, descriptorsHashMap, longestName,
                   descriptors, output>>

\* One round (git fetch -q && git log ..@{u}, with its timeout) settles.  A
\* success sets needsGitPull and leaves the loop; a failure uses up an attempt,
\* and either leaves the loop (none left) or sleeps 500 ms.  The rounds of a
\* repository that is not stable fail at most roundFailuresLeft times in all.
FetchRound(i) ==
    /\ Alive
    /\ promises[i].pc = "fetch"
    /\ \E ok \in Succeeds(RepoAt(promises[i].name), "fetch") :
        LET d == promises[i]
        IN  IF ok
            THEN /\ promises' = [promises EXCEPT
                                    ![i].needsGitPull = RepoAt(d.name).behind,
                                    ![i].pc = "merge", ![i].exit = "success"]
                 /\ UNCHANGED roundFailuresLeft
            ELSE /\ RepoAt(d.name).stable \/ roundFailuresLeft > 0
                 /\ roundFailuresLeft' = IF RepoAt(d.name).stable
                                         THEN roundFailuresLeft
                                         ELSE roundFailuresLeft - 1
                 /\ promises' = [promises EXCEPT ![i] = roundFailed(d)]
    /\ UNCHANGED <<targets, disk, options, pcMain, targetIdx, filteredFolders,
                   resolvedPromises, descriptorsHashMap, longestName,
                   descriptors, output>>

\* The 500 ms delay after a failed round elapses: back to the top of the loop.
RetryDelay(i) ==
    /\ Alive
    /\ promises[i].pc = "delay"
    /\ promises' = [promises EXCEPT ![i] = LoopTop(promises[i])]
    /\ UNCHANGED <<targets, disk, options, pcMain, targetIdx, filteredFolders,
                   resolvedPromises, descriptorsHashMap, longestName,
                   descriptors, output, roundFailuresLeft>>

\* The stat of folder/.git/MERGE_HEAD settles; the state tokens and the state
\* label are computed, the task returns and the callback runs.
MergeFinalize(i) ==
    /\ Alive
    /\ promises[i].pc = "merge"
    /\ \E merging \in Answers(RepoAt(promises[i].name), "merge",
                               RepoAt(promises[i].name).merging, FALSE) :
        LET d     == promises[i]
            parts == stateDisplayParts(d, options.shortStatusDisplay)
            label == stateDisplay(parts, options.shortStatusDisplay)
        IN  /\ Returns(i, [d EXCEPT !.isInMergeState = merging,
                                    !.stateDisplayParts = <<parts>>,
                                    !.stateDisplay = label])
            /\ longestName' = setLongestName(longestName, "stateDisplay", Len(label))
    /\ UNCHANGED <<targets, disk, options, pcMain, targetIdx, filteredFolders,
                   descriptors, output, roundFailuresLeft>>

(* The report: filter, sort, print *)

\* the descriptor object an entry of the result map refers to
Descriptor(entry) == promises[entry.d]

\* keep, were the only-git test missing
keep_IgnoresOnlyGit(e) ==
    ~(options.onlyWithStatus /\ e.stateDisplayParts # <<>>
        /\ Len(e.stateDisplayParts[1]) = 0)

\* the predicate of the .filter of main: TRUE for the descriptors kept
keep(e) ==
    /\ ~(options.onlyWithStatus /\ e.stateDisplayParts # <<>>
            /\ Len(e.stateDisplayParts[1]) = 0)
    /\ ~(options.onlyGit /\ ~e.isGit)

\* Object.values(descriptorsHashMap).filter(...): the entries kept, in order
RECURSIVE filterDescriptors(_)
filterDescriptors(values) ==
    IF values = <<>> THEN <<>>
    ELSE (IF keep(Descriptor(values[1])) THEN <<values[1]>> ELSE <<>>)
         \o filterDescriptors(Tail(values))

\* the registry after the setLongestName("folder", e.name) of every kept entry
RECURSIVE registerFolders(_, _)
registerFolders(reg, kept) ==
    IF kept = <<>> THEN reg
    ELSE registerFolders(setLongestName(reg, "folder", Len(kept[1].key)), Tail(kept))

\* compare, were it to tell git folders from the others and nothing more
compare_ClassOnly(a, b) ==
    IF a.isGit /\ ~b.isGit THEN 1
    ELSE IF ~a.isGit /\ b.isGit THEN -1
    ELSE 0

\* compare, were it to order by name alone
compare_ByNameOnly(a, b) == localeCompare(a.name, b.name)

\* the comparator of descriptors.sort
compare(a, b) ==
    IF a.isGit /\ ~b.isGit THEN 1
    ELSE IF ~a.isGit /\ b.isGit THEN -1
    ELSE localeCompare(a.name, b.name)

\* Array.prototype.sort (stable): x goes behind every element not after it
RECURSIVE insertSorted(_, _)
insertSorted(x, sorted) ==
    IF sorted = <<>> THEN <<x>>
    ELSE IF compare(Descriptor(sorted[1]), Descriptor(x)) <= 0
         THEN <<sorted[1]>> \o insertSorted(x, Tail(sorted))
         ELSE <<x>> \o sorted

RECURSIVE sort(_)
sort(s) ==
    IF s = <<>> THEN <<>>
    ELSE insertSorted(s[Len(s)], sort(SubSeq(s, 1, Len(s) - 1)))

\* padEndName(key, string): the string padded to the registered width
padEndName(reg, key, string) == padEnd(string, getLongestName(reg, key))

\* d.toString(): the printed line, as its folder-name part followed by the parts
\* that are joined to it with single spaces
toString(d, reg) ==
    LET nameDisplay == padEndChars(d.name, getLongestName(reg, "folder"))
    IN  IF ~d.isGit
        THEN [name |-> d.name, nameDisplay |-> nameDisplay,
              parts |-> <<"not-a-git-repository">>]
        ELSE [name |-> d.name, nameDisplay |-> nameDisplay,
              parts |-> << padEndName(reg, "branch", d.branch),
                           padEndName(reg, "stateDisplay", d.stateDisplay),
                           padEndName(reg, "remoteOriginUrl",
                                      IF ~Truthy(d.remoteOriginUrl) THEN "no-remote"
                                      ELSE d.remoteOriginUrl[1]) >>]

\* The end of main, from the exit of the polling loop: filter, sort, print.
Render ==
    LET kept   == filterDescriptors(descriptorsHashMap)
        reg    == registerFolders(longestName, kept)
        sorted == sort(kept)
    IN  /\ longestName' = reg
        /\ descriptors' = sorted
        /\ output' = [k \in 1..Len(sorted) |-> toString(Descriptor(sorted[k]), reg)]
        /\ pcMain' = "done"

\* PollOrRender, were the report printed without waiting for the result map
PollOrRender_NoWait == Render

\* The test of the polling loop, then either the next 100 ms timer or the report.
PollOrRender ==
    IF Len(descriptorsHashMap) < Len(filteredFolders)
    THEN /\ pcMain' = "polling"
         /\ UNCHANGED <<longestName, descriptors, output>>
    ELSE Render

(* main *)

\* fs.promises.readdir(target) settles for the target the loop is at.  A failure
\* rejects main.  After the last target the forward family is launched and the
\* 1000 ms timer is set.
ReadTarget ==
    /\ pcMain = "readdir"
    /\ LET target == targets[targetIdx]
           dir    == disk[target]
           all    == filteredFolders \o targetFilteredFolders(target, dir.entries)
       IN  IF ~dir.readable
           THEN /\ pcMain' = "failed"
                /\ UNCHANGED <<targetIdx, filteredFolders, promises>>
           ELSE /\ filteredFolders' = all
                /\ IF targetIdx < Len(targets)
                   THEN /\ targetIdx' = targetIdx + 1
                        /\ UNCHANGED <<pcMain, promises>>
                   ELSE /\ promises' = [i \in 1..Len(all) |-> NewTask(all[i])]
                        /\ pcMain' = "timer"
                        /\ UNCHANGED targetIdx
    /\ UNCHANGED <<targets, disk, options, resolvedPromises, descriptorsHashMap,
                   longestName, descriptors, output, roundFailuresLeft>>

\* LaunchReverse, were the second family launched in the order of the first
LaunchReverse_SameOrder ==
    /\ pcMain = "timer"
    /\ LET n == Len(filteredFolders)
       IN  promises' = promises \o [j \in 1..n |-> NewTask(filteredFolders[j])]
    /\ PollOrRender
    /\ UNCHANGED <<targets, disk, options, targetIdx, filteredFolders,
                   resolvedPromises, descriptorsHashMap, roundFailuresLeft>>

\* The 1000 ms timer fires: the reverse family is launched, and the polling
\* loop makes its first test.
LaunchReverse ==
    /\ pcMain = "timer"
    /\ LET n == Len(filteredFolders)
       IN  promises' = promises \o [j \in 1..n |-> NewTask(filteredFolders[n + 1 - j])]
    /\ PollOrRender
    /\ UNCHANGED <<targets, disk, options, targetIdx, filteredFolders,
                   resolvedPromises, descriptorsHashMap, roundFailuresLeft>>

\* A 100 ms timer of the polling loop fires: the loop makes its test again.
Poll ==
    /\ pcMain = "polling"
    /\ PollOrRender
    /\ UNCHANGED <<targets, disk, options, targetIdx, filteredFolders, promises,
                   resolvedPromises, descriptorsHashMap, roundFailuresLeft>>

Next ==
    \/ ReadTarget
    \/ LaunchReverse
    \/ Poll
    \/ \E i \in DOMAIN promises : StatGit(i)
    \/ \E i \in DOMAIN promises : ProbeBranch(i)
    \/ \E i \in DOMAIN promises : ProbeRemote(i)
    \/ \E i \in DOMAIN promises : ProbeLocal(i)
    \/ \E i \in DOMAIN promises : FetchRound(i)
    \/ \E i \in DOMAIN promises : RetryDelay(i)
    \/ \E i \in DOMAIN promises : MergeFinalize(i)

(* Initial states *)

\* a repository on its default branch, behind its remote, nothing to commit
RepoA ==
    [NotARepo EXCEPT !.isGit = TRUE, !.branch = "main", !.remote = <<"o:ra">>,
                     !.behind = TRUE]

\* a repository without remote, with unstaged changes and untracked files
RepoB ==
    [NotARepo EXCEPT !.isGit = TRUE, !.branch = "dev", !.dirty = TRUE,
                     !.unstaged = TRUE, !.untracked = TRUE]

\* directory entries: two repositories, a plain folder, a folder whose name
\* every object inherits, a regular file, an entry lstatSync fails on
EntryRepoA == [name |-> <<"r", "a">>, kind |-> "dir", repo |-> RepoA]

EntryRepoB == [name |-> <<"r", "b", "b">>, kind |-> "dir", repo |-> RepoB]

EntryPlain == [name |-> <<"s">>, kind |-> "dir", repo |-> NotARepo]

EntryInherited ==
    [name |-> <<"c", "o", "n", "s", "t", "r", "u", "c", "t", "o", "r">>,
     kind |-> "dir", repo |-> NotARepo]

EntryFile == [name |-> <<"t">>, kind |-> "file", repo |-> NotARepo]

EntryNoStat == [name |-> <<"u">>, kind |-> "nostat", repo |-> NotARepo]

Unreadable == [readable |-> FALSE, entries |-> <<>>]

Readable(l) == [readable |-> TRUE, entries |-> l]

\* the sequences over S of length at most n
SeqsUpTo(S, n) == UNION {[1..k -> S] : k \in 0..n}

\* the listings readdir may return: no name twice
Listings(E, n) ==
    {l \in SeqsUpTo(E, n) : \A i, j \in 1..Len(l) : l[i].name = l[j].name => i = j}

\* the number of folder references main enumerates
RECURSIVE CountFolders(_, _)
CountFolders(ts, dk) ==
    IF ts = <<>> THEN 0
    ELSE Len(filterDirectories(dk[ts[1]].entries)) + CountFolders(Tail(ts), dk)

\* the state after argument parsing, for given arguments and a given file system
Start(args, dk, opts, failures) ==
    /\ targets = IF args = <<>> THEN <<<<".">>>> ELSE args
    /\ disk = dk
    /\ options = opts
    /\ pcMain = "readdir"
    /\ targetIdx = 1
    /\ filteredFolders = <<>>
    /\ promises = <<>>
    /\ resolvedPromises = 0
    /\ descriptorsHashMap = <<>>
    /\ longestName = <<>>
    /\ descriptors = <<>>
    /\ output = <<>>
    /\ roundFailuresLeft = failures

NoOptions ==
    [onlyGit |-> FALSE, onlyWithStatus |-> FALSE, shortStatusDisplay |-> FALSE]

\* Runs on the current directory holding up to MaxFolders folders, repositories
\* among them, under every combination of the two filters.
InitScan ==
    \E l \in Listings({EntryRepoA, EntryRepoB, EntryPlain}, MaxFolders) :
    \E opts \in [onlyGit : BOOLEAN, onlyWithStatus : BOOLEAN,
                 shortStatusDisplay : {FALSE}] :
        Start(<<>>, [t \in TargetNames |-> IF t = <<".">> THEN Readable(l)
                                           ELSE Unreadable],
              opts, MaxRoundFailures)

\* Runs on up to MaxTargets target paths (a path may be given twice, may be
\* unreadable) whose listings hold plain folders, files and entries that cannot
\* be examined.
InitEnum ==
    \E args \in SeqsUpTo(TargetNames, MaxTargets) :
    \E dk \in [TargetNames -> {Unreadable} \cup
                  {Readable(l) : l \in Listings({EntryPlain, EntryInherited,
                                                 EntryFile, EntryNoStat},
                                                MaxFolders)}] :
        LET ts == IF args = <<>> THEN <<<<".">>>> ELSE args
        IN  /\ \A t \in TargetNames \ Range(ts) : dk[t] = Unreadable
            /\ CountFolders(ts, dk) <= MaxFolders
            /\ Start(args, dk, NoOptions, MaxRoundFailures)

Init == InitScan \/ InitEnum

Spec == Init /\ [][Next]_vars

\* Runs on one repository whose remote is missing, empty or set, where any
\* number of divergence rounds may fail.
InitDiv ==
    \E url \in {<<>>, <<"">>, <<"o:ra">>} :
    \E behind \in BOOLEAN, ahead \in BOOLEAN, short \in BOOLEAN :
        LET repo  == [RepoA EXCEPT !.remote = url, !.behind = behind,
                                   !.ahead = ahead]
            entry == [EntryRepoA EXCEPT !.repo = repo]
        IN  Start(<<>>, [t \in TargetNames |-> IF t = <<".">>
                                               THEN Readable(<<entry>>)
                                               ELSE Unreadable],
                  [NoOptions EXCEPT !.shortStatusDisplay = short],
                  2 * attemptsMax)

SpecDiv == InitDiv /\ [][Next]_vars

\* Runs on one target path, or on the same path given twice, holding one plain
\* folder or one repository.
InitFair ==
    \E args \in {<< <<".">> >>, << <<".">>, <<".">> >>} :
    \E entry \in {EntryPlain, EntryRepoA} :
        /\ Len(args) = 2 => entry = EntryPlain
        /\ Start(args, [t \in TargetNames |-> IF t = <<".">>
                                              THEN Readable(<<entry>>)
                                              ELSE Unreadable],
                 NoOptions, MaxRoundFailures)

\* Every awaited call and every timer eventually settles: a step that can be
\* taken is eventually taken.
FairSpec == InitFair /\ [][Next]_vars /\ WF_vars(Next)

\* Runs on one repository with a remote, under every combination of untracked
\* files, unstaged changes, staged changes, commits to push and commits to
\* pull, in both display modes.  The working tree is dirty when it has any
\* uncommitted change, tracked or not.
InitTokens ==
    \E untracked \in BOOLEAN, unstaged \in BOOLEAN, staged \in BOOLEAN :
    \E ahead \in BOOLEAN, behind \in BOOLEAN, short \in BOOLEAN :
        LET repo  == [RepoA EXCEPT !.untracked = untracked, !.unstaged = unstaged,
                                   !.staged = staged, !.ahead = ahead,
                                   !.behind = behind,
                                   !.dirty = untracked \/ unstaged \/ staged]
            entry == [EntryRepoA EXCEPT !.repo = repo]
        IN  Start(<<>>, [t \in TargetNames |-> IF t = <<".">>
                                               THEN Readable(<<entry>>)
                                               ELSE Unreadable],
                  [NoOptions EXCEPT !.shortStatusDisplay = short],
                  MaxRoundFailures)

SpecTokens == InitTokens /\ [][Next]_vars

\* Runs on the current directory holding up to MaxFolders folders whose probes
\* give the same outcome each time they are run: a plain folder, the
\* repository ra (behind its remote; either it has commits to push and all its
\* probes succeed, or its fetch, its remote lookup or its branch query is
\* failing) and the repository rbb (its unstaged-diff query may be failing),
\* with and without the only-with-status filter.
InitSame ==
    \E failingA \in {{}, {"fetch"}, {"remote"}, {"branch"}} :
    \E failingB \in {{}, {"diff"}} :
    \E onlyWithStatus \in BOOLEAN :
        LET repoA == [RepoA EXCEPT !.stable = TRUE, !.failing = failingA,
                                   !.ahead = (failingA = {})]
            repoB == [RepoB EXCEPT !.stable = TRUE, !.failing = failingB]
            plain == [NotARepo EXCEPT !.stable = TRUE]
        IN  \E l \in Listings({[EntryRepoA EXCEPT !.repo = repoA],
                                [EntryRepoB EXCEPT !.repo = repoB],
                                [EntryPlain EXCEPT !.repo = plain]},
                               MaxFolders) :
              Start(<<>>, [t \in TargetNames |-> IF t = <<".">> THEN Readable(l)
                                                 ELSE Unreadable],
                    [NoOptions EXCEPT !.onlyWithStatus = onlyWithStatus],
                    MaxRoundFailures)

SpecSame == InitSame /\ [][Next]_vars

(* Properties *)

NoFilter == ~options.onlyGit /\ ~options.onlyWithStatus

\* the report has been printed
Reported == pcMain = "done"

\* the descriptor of the k-th printed row
Row(k) == Descriptor(descriptors[k])

\* the tasks launched for a folder name
TasksOf(name) == {i \in DOMAIN promises : promises[i].name = name}

\* C1: the result map never holds two entries for one folder name, and with no
\* filter active the printed report has exactly one row for every enumerated
\* folder name: no name twice, no name missing, however many tasks completed.
C1_OneRowPerFolder ==
    /\ \A j, k \in 1..Len(descriptorsHashMap) :
          descriptorsHashMap[j].key = descriptorsHashMap[k].key => j = k
    /\ (Reported /\ NoFilter) =>
          /\ Len(output) = Len(descriptors)
          /\ {output[k].name : k \in 1..Len(output)} = Range(filteredFolders)
          /\ \A j, k \in 1..Len(output) : output[j].name = output[k].name => j = k

\* C1 witness: a report of two folders printed with no filter after all four
\* tasks, the redundant ones included, completed.
C1_Witness ==
    /\ Reported /\ NoFilter
    /\ Len(output) = 2
    /\ resolvedPromises = 4
    /\ \E i \in DOMAIN promises : promises[i].isGit

\* C2: first arrival wins.  Once the callback has inserted a descriptor for a
\* folder, no step changes that entry of the map or the descriptor it holds.
C2_FirstArrivalWins ==
    [][\A k \in 1..Len(descriptorsHashMap) :
          /\ Len(descriptorsHashMap') >= k
          /\ descriptorsHashMap'[k] = descriptorsHashMap[k]
          /\ promises'[descriptorsHashMap[k].d] = promises[descriptorsHashMap[k].d]]_vars

\* C2 witness: the other task of a published folder has completed with a
\* different descriptor, and the map still holds the first one.
C2_Witness ==
    \E k \in 1..Len(descriptorsHashMap) :
    \E j \in TasksOf(descriptorsHashMap[k].key) :
        /\ j # descriptorsHashMap[k].d
        /\ promises[j].pc = "done"
        /\ promises[j].stateDisplay # Descriptor(descriptorsHashMap[k]).stateDisplay

\* the state tokens of a descriptor are there and not empty
HasStatus(d) == d.stateDisplayParts # <<>> /\ Len(d.stateDisplayParts[1]) > 0

\* C3: under fairness the polling loop eventually ends, whatever the list of
\* target paths and the outcome of the probes.  Stated for the runs that no
\* error ends: the report is printed unless the enumeration fails or a
\* rejection kills the process first.
C3_Terminates == <>(pcMain \in {"done", "failed", "crashed"})

\* C4, as claimed: in the report no row of a non-git folder comes before a row
\* of a git folder.
C4_NonGitLast ==
    Reported =>
        \A j, k \in 1..Len(descriptors) :
            (j < k /\ ~Row(j).isGit) => ~Row(k).isGit

\* C4, amended: in the report every row of a non-git folder comes strictly
\* before every row of a git folder (the comparator puts git folders last).
C4_NonGitFirst ==
    Reported =>
        \A j, k \in 1..Len(descriptors) :
            (j < k /\ Row(j).isGit) => Row(k).isGit

\* C4 witness: a printed report with a git row and a non-git row, the non-git
\* folder being the second one enumerated and the later one by name.
C4_Witness ==
    /\ Reported
    /\ Len(descriptors) = 2
    /\ ~Row(1).isGit /\ Row(2).isGit
    /\ filteredFolders[1] = Row(2).name
    /\ localeCompare(Row(2).name, Row(1).name) < 0

\* C5: a failing probe only defaults its field; the task of the folder still
\* completes: no task ever ends by a rejection.
C5_ProbeFailureAbsorbed ==
    \A i \in DOMAIN promises : promises[i].pc # "rejected"

\* C6: a task whose remote URL is absent (the probe failed, or returned the
\* empty string) has needsGitPull false and has started no divergence round.
C6_NoRemoteNoPull ==
    \A i \in DOMAIN promises :
        ~(promises[i].remoteOriginUrl # <<>> /\ promises[i].remoteOriginUrl[1] # "")
            => ~promises[i].needsGitPull /\ promises[i].rounds = 0

\* C6 witness: a completed descriptor of a repository that is behind its
\* remote, whose remote URL came back empty or not at all.
C6_Witness ==
    \E i \in DOMAIN promises :
        /\ promises[i].pc = "done" /\ promises[i].isGit
        /\ promises[i].remoteOriginUrl \in {<<>>, <<"">>}
        /\ RepoAt(promises[i].name).behind
        /\ RepoAt(promises[i].name).remote # <<>>

\* C7: one invocation of the divergence loop starts at most attemptsMax rounds,
\* and the iteration that observes the early-exit condition starts none.
C7_AtMostNRounds ==
    /\ [](\A i \in DOMAIN promises : promises[i].rounds <= attemptsMax)
    /\ [][\A i \in DOMAIN promises :
            (promises'[i].exit = "cancelled" /\ promises[i].exit # "cancelled")
                => promises'[i].rounds = promises[i].rounds]_vars

\* C7 witness: one task has used all its rounds, the other task of the folder
\* has abandoned its loop.
C7_Witness ==
    \E i, j \in DOMAIN promises :
        /\ promises[i].rounds = attemptsMax /\ promises[i].exit = "exhausted"
        /\ promises[j].exit = "cancelled" /\ promises[j].rounds > 0

\* C8: a task that left the divergence loop with every round failed, or by the
\* early exit, has needsGitPull false and goes on normally: it is at the
\* merge-marker probe or has returned a finalized descriptor, never rejected.
C8_CheckerNeverThrows ==
    \A i \in DOMAIN promises :
        promises[i].exit \in {"exhausted", "cancelled"} =>
            /\ ~promises[i].needsGitPull
            /\ promises[i].pc \in {"merge", "done"}
            /\ promises[i].pc = "done" => promises[i].stateDisplayParts # <<>>

\* C8 witness: both tasks of a repository that is behind its remote have
\* completed, one after attemptsMax failed rounds, one after the early exit.
C8_Witness ==
    \E i, j \in DOMAIN promises :
        /\ promises[i].exit = "exhausted" /\ promises[i].pc = "done"
        /\ promises[j].exit = "cancelled" /\ promises[j].pc = "done"
        /\ RepoAt(promises[i].name).behind

\* C9: with the only-with-status filter active the report has no row whose
\* state token list is empty, the rows of non-git folders (which have no
\* state tokens) included.
C9_NoEmptyStateRows ==
    (Reported /\ options.onlyWithStatus) =>
        \A k \in 1..Len(descriptors) : HasStatus(Row(k))

\* C10: with the only-git filter active the report has no row of a non-git
\* folder, and exactly one row for every git folder that passes the other
\* filter.
C10_OnlyGit ==
    (Reported /\ options.onlyGit) =>
        /\ Len(output) = Len(descriptors)
        /\ \A k \in 1..Len(descriptors) :
              Row(k).isGit /\ output[k].name = Row(k).name
        /\ \A m \in 1..Len(descriptorsHashMap) :
              LET d == Descriptor(descriptorsHashMap[m])
              IN  (d.isGit /\ (options.onlyWithStatus => HasStatus(d))) =>
                     Cardinality({k \in 1..Len(descriptors) :
                                     descriptors[k] = descriptorsHashMap[m]}) = 1

\* C10 witness: a report printed under only-git for a git folder and a non-git
\* folder: one row, the git folder's.
C10_Witness ==
    /\ Reported /\ options.onlyGit
    /\ Len(descriptorsHashMap) = 2
    /\ Len(output) = 1
    /\ \E m \in 1..2 : ~Descriptor(descriptorsHashMap[m]).isGit

\* C11: in the report the rows of git folders are in ascending order of folder
\* name, and so are the rows of non-git folders, whatever the order in which
\* the descriptors entered the result map.
C11_SortedByName ==
    Reported =>
        \A j, k \in 1..Len(descriptors) :
            (j < k /\ Row(j).isGit = Row(k).isGit) =>
                localeCompare(Row(j).name, Row(k).name) <= 0

\* C11 witness: a report of two git folders whose descriptors entered the
\* result map in descending order of name.
C11_Witness ==
    /\ Reported
    /\ Len(descriptors) = 2
    /\ Row(1).isGit /\ Row(2).isGit
    /\ Len(descriptorsHashMap) = 2
    /\ descriptorsHashMap[1].key = Row(2).name
    /\ localeCompare(Row(1).name, Row(2).name) < 0

\* the text a row shows in a column: the folder name, the branch, the state
\* label, the remote URL or its placeholder (its length is what matters)
FieldLength(d, key) ==
    CASE key = "folder" -> Len(d.name)
      [] key = "branch" -> Len(d.branch)
      [] key = "stateDisplay" -> Len(d.stateDisplay)
      [] key = "remoteOriginUrl" ->
            Len(IF ~Truthy(d.remoteOriginUrl) THEN "no-remote"
                ELSE d.remoteOriginUrl[1])

\* the printed rows that show a column: every row shows the folder name, only
\* the rows of git folders show the other three
RowsShowing(key) ==
    {k \in 1..Len(descriptors) : key = "folder" \/ Row(k).isGit}

\* the largest element of a non-empty set of numbers
MaxOf(S) == CHOOSE m \in S : \A n \in S : n <= m

\* C12: for each of the four columns, the width the report pads to is the
\* largest length of that column's text among the printed rows; descriptors
\* dropped by a filter and descriptors of redundant tasks have no influence.
C12_WidthsFromRendered ==
    Reported =>
        \A key \in {"folder", "branch", "stateDisplay", "remoteOriginUrl"} :
            RowsShowing(key) # {} =>
                getLongestName(longestName, key) =
                    MaxOf({FieldLength(Row(k), key) : k \in RowsShowing(key)})

\* the tokens of the display mode in use
Tokens == IF options.shortStatusDisplay THEN stateDisplayMode.short
          ELSE stateDisplayMode.full

\* the tasks of git folders that have returned their descriptor
Finalized == {i \in DOMAIN promises : promises[i].pc = "done" /\ promises[i].isGit}

\* the positions of a token in a token list
Positions(parts, token) == {k \in 1..Len(parts) : parts[k] = token}

\* token a is not after token b in the list
NotAfter(parts, a, b) ==
    \A j \in Positions(parts, a), k \in Positions(parts, b) : j < k

\* C13, the part about the token list and the label: the list of a finalized
\* git descriptor holds the combined token iff pull and push are both needed,
\* the push token iff push alone, the pull token iff pull alone, and the
\* pending-changes, needs-commit and untracked tokens iff their flags are set;
\* no token twice; the tokens come in that order; the label is the joined
\* tokens in brackets, and is empty iff the list is empty; two descriptors with
\* the same five flags have the same list.
TokenListFromFlags ==
    \A i \in Finalized :
        LET d     == promises[i]
            parts == d.stateDisplayParts[1]
            has(token) == Positions(parts, token) # {}
            order == <<Tokens.needsGitPullAndPush, Tokens.needsGitPush,
                       Tokens.needsGitPull,
                       Tokens.hasPendingChangesFromTrackedFiles,
                       Tokens.needsGitCommit, Tokens.hasUntracked>>
        IN  /\ d.stateDisplayParts # <<>>
            /\ has(Tokens.needsGitPullAndPush) <=> (d.needsGitPull /\ d.needsGitPush)
            /\ has(Tokens.needsGitPush) <=> (d.needsGitPush /\ ~d.needsGitPull)
            /\ has(Tokens.needsGitPull) <=> (d.needsGitPull /\ ~d.needsGitPush)
            /\ has(Tokens.hasPendingChangesFromTrackedFiles)
                    <=> d.hasPendingChangesFromTrackedFiles
            /\ has(Tokens.needsGitCommit) <=> d.needsGitCommit
            /\ has(Tokens.hasUntracked) <=> d.hasUntracked
            /\ Range(parts) \subseteq Range(order)
            /\ \A token \in Range(parts) : Cardinality(Positions(parts, token)) = 1
            /\ \A a, b \in 1..Len(order) : a < b => NotAfter(parts, order[a], order[b])
            /\ (d.stateDisplay = "") <=> (parts = <<>>)
            /\ parts # <<>> =>
                    d.stateDisplay = "[" \o join(parts, Tokens.joiner) \o "]"
            /\ \A j \in Finalized :
                    (/\ promises[j].needsGitPull = d.needsGitPull
                     /\ promises[j].needsGitPush = d.needsGitPush
                     /\ promises[j].hasPendingChangesFromTrackedFiles
                            = d.hasPendingChangesFromTrackedFiles
                     /\ promises[j].needsGitCommit = d.needsGitCommit
                     /\ promises[j].hasUntracked = d.hasUntracked)
                        => promises[j].stateDisplayParts = d.stateDisplayParts

\* C13, as claimed: the above, and a dirty folder with untracked files has a
\* non-empty list holding the pending-changes token and the untracked token.
C13_TokensAsClaimed ==
    /\ TokenListFromFlags
    /\ \A i \in Finalized :
            (promises[i].isDirty /\ promises[i].hasUntracked) =>
                /\ promises[i].stateDisplayParts[1] # <<>>
                /\ Tokens.hasPendingChangesFromTrackedFiles
                        \in Range(promises[i].stateDisplayParts[1])
                /\ Tokens.hasUntracked \in Range(promises[i].stateDisplayParts[1])

\* C13, amended: the above, and a folder with untracked files has a non-empty
\* list holding the untracked token, dirty or not; the pending-changes token
\* is there iff the folder has pending changes in tracked files.
C13_TokensFromFlags ==
    /\ TokenListFromFlags
    /\ \A i \in Finalized :
            promises[i].hasUntracked =>
                /\ promises[i].stateDisplayParts[1] # <<>>
                /\ Tokens.hasUntracked \in Range(promises[i].stateDisplayParts[1])
                /\ Tokens.hasPendingChangesFromTrackedFiles
                            \in Range(promises[i].stateDisplayParts[1])
                        <=> promises[i].hasPendingChangesFromTrackedFiles

\* C13 witness: a finalized descriptor of a repository that is dirty through
\* untracked files alone and has commits to pull and to push: its list is the
\* combined token followed by the untracked token.
C13_Witness ==
    \E i \in Finalized :
        /\ promises[i].isDirty /\ promises[i].hasUntracked
        /\ ~RepoAt(promises[i].name).unstaged
        /\ promises[i].needsGitPull /\ promises[i].needsGitPush
        /\ promises[i].stateDisplayParts[1] =
                <<Tokens.needsGitPullAndPush, Tokens.hasUntracked>>

\* C14: no divergence round of a folder is started once a descriptor of that
\* folder is in the result map, and a task that left its loop by the early exit
\* has needsGitPull false and is not the task whose descriptor the map holds.
C14_NoRoundAfterPublication ==
    /\ [](\A i \in DOMAIN promises :
            promises[i].exit = "cancelled" =>
                /\ ~promises[i].needsGitPull
                /\ promises[i].name \in OwnKeys(descriptorsHashMap)
                /\ \A k \in 1..Len(descriptorsHashMap) : descriptorsHashMap[k].d # i)
    /\ [][\A i \in DOMAIN promises :
            promises'[i].rounds > promises[i].rounds =>
                /\ promises[i].name \notin OwnKeys(descriptorsHashMap)
                /\ promises[i].name \notin OwnKeys(descriptorsHashMap')]_vars

\* C14 witness: a task whose round failed while the other task of the folder
\* published has abandoned its loop at the next iteration and returned.
C14_Witness ==
    \E i \in DOMAIN promises :
        /\ promises[i].exit = "cancelled" /\ promises[i].pc = "done"
        /\ promises[i].rounds = 1
        /\ \E k \in 1..Len(descriptorsHashMap) :
              /\ descriptorsHashMap[k].key = promises[i].name
              /\ Descriptor(descriptorsHashMap[k]).needsGitPull

\* C15: a descriptor in the result map belongs to a task that has returned,
\* with every probe settled: a git descriptor has been through the divergence
\* stage and has its state tokens.  The callback has run once for every
\* returned task and for no other.  The step that puts a descriptor in the map
\* is the step in which its task returns, and the folder was not in the map.
C15_PublishedWhenComplete ==
    /\ [](/\ \A k \in 1..Len(descriptorsHashMap) :
               LET d == Descriptor(descriptorsHashMap[k])
               IN  /\ d.pc = "done"
                   /\ d.name = descriptorsHashMap[k].key
                   /\ d.isGit => (d.exit # "none" /\ d.stateDisplayParts # <<>>)
           /\ resolvedPromises =
                 Cardinality({i \in DOMAIN promises : promises[i].pc = "done"}))
    /\ [][Len(descriptorsHashMap') > Len(descriptorsHashMap) =>
            LET e == descriptorsHashMap'[Len(descriptorsHashMap')]
            IN  /\ Len(descriptorsHashMap') = Len(descriptorsHashMap) + 1
                /\ promises[e.d].pc \in {"stat", "merge"}
                /\ promises'[e.d].pc = "done"
                /\ e.key \notin OwnKeys(descriptorsHashMap)]_vars

\* C15 witness: the map holds the descriptor of a repository whose task went
\* through a failed and a successful divergence round, and the other task of
\* that folder has returned too, without a second entry.
C15_Witness ==
    \E k \in 1..Len(descriptorsHashMap) :
        LET d == Descriptor(descriptorsHashMap[k])
        IN  /\ d.isGit /\ d.rounds = 2 /\ d.exit = "success"
            /\ \A i \in TasksOf(d.name) : promises[i].pc = "done"
            /\ Cardinality(TasksOf(d.name)) = 2

\* C16: the folder references main enumerates have pairwise different names,
\* whatever the list of target paths: no name comes twice, be it from two
\* targets or from one target given twice.
C16_UniqueKeys ==
    \A j, k \in 1..Len(filteredFolders) :
        filteredFolders[j] = filteredFolders[k] => j = k

\* a target path main cannot list
HasUnreadableTarget == \E k \in 1..Len(targets) : ~disk[targets[k]].readable

\* the enumeration part of C17: with a target that cannot be listed no task is
\* ever launched and nothing is printed, and the enumeration fails only then.
UnreadableTargetIsFatal ==
    /\ HasUnreadableTarget =>
            /\ pcMain \in {"readdir", "failed"}
            /\ promises = <<>> /\ output = <<>>
    /\ pcMain = "failed" => HasUnreadableTarget

\* C17: the run fails when a target path cannot be listed, before any task is
\* launched and with nothing printed, and it fails in no other way: no
\* failure about a single folder (an entry that cannot be examined, a probe
\* that fails) ends the run.
C17_OnlyEnumerationFails ==
    /\ UnreadableTargetIsFatal
    /\ pcMain # "crashed"

\* C18: a task whose divergence round succeeded has needsGitPull set to
\* whether the repository has commits to pull, and has left the loop: from then
\* on it starts no round, takes no retry delay and keeps its needsGitPull.
C18_SuccessEndsLoop ==
    /\ [](\A i \in DOMAIN promises :
            promises[i].exit = "success" =>
                /\ promises[i].needsGitPull = RepoAt(promises[i].name).behind
                /\ promises[i].pc \in {"merge", "done"})
    /\ [][\A i \in DOMAIN promises :
            (promises[i].pc = "fetch" /\ promises'[i].exit = "success") =>
                /\ promises'[i].pc = "merge"
                /\ promises'[i].rounds = promises[i].rounds
                /\ promises'[i].attempts = promises[i].attempts]_vars
    /\ [][\A i \in DOMAIN promises :
            promises[i].exit = "success" =>
                /\ promises'[i].rounds = promises[i].rounds
                /\ promises'[i].pc \notin {"fetch", "delay"}
                /\ promises'[i].needsGitPull = promises[i].needsGitPull]_vars

\* C18 witness: a task has returned with needsGitPull set by its last possible
\* round, the nine rounds before having failed.
C18_Witness ==
    \E i \in DOMAIN promises :
        /\ promises[i].exit = "success" /\ promises[i].pc = "done"
        /\ promises[i].rounds = attemptsMax
        /\ promises[i].needsGitPull

\* C19: the round a task is in, begun after n failed rounds of that task, has
\* the timeout 2000 + 500 * n, which is at most 2000 + 500 * (attemptsMax - 1);
\* every round after the first has a timeout 500 above the round before and
\* begins when the delay that followed the failed round has elapsed; a failed
\* round is followed by that one delay unless it was the last.
C19_EscalatingTimeout ==
    /\ [](\A i \in DOMAIN promises :
            promises[i].pc = "fetch" =>
                /\ promises[i].timeout =
                        baseTimeout + timeoutIncrement * (promises[i].rounds - 1)
                /\ promises[i].timeout
                        <= baseTimeout + timeoutIncrement * (attemptsMax - 1))
    /\ [][\A i \in DOMAIN promises :
            (promises'[i].rounds # promises[i].rounds /\ promises[i].rounds >= 1) =>
                /\ promises[i].pc = "delay"
                /\ promises'[i].pc = "fetch"
                /\ promises'[i].rounds = promises[i].rounds + 1
                /\ promises'[i].timeout = promises[i].timeout + timeoutIncrement
                /\ promises'[i].timeout > promises[i].timeout]_vars
    /\ [][\A i \in DOMAIN promises :
            (/\ promises[i].pc = "fetch" /\ promises'[i].pc # "fetch"
             /\ promises'[i].exit # "success"
             /\ pcMain' # "crashed") =>
                IF promises[i].rounds < attemptsMax
                THEN promises'[i].pc = "delay"
                ELSE promises'[i].pc = "merge" /\ promises'[i].exit = "exhausted"]_vars
    /\ [][\A i \in DOMAIN promises :
            (promises'[i].pc = "delay" /\ promises[i].pc # "delay") =>
                promises[i].pc = "fetch"]_vars

\* C19 witness: a task is in its tenth round, with the timeout 6500.
C19_Witness ==
    \E i \in DOMAIN promises :
        /\ promises[i].pc = "fetch"
        /\ promises[i].rounds = attemptsMax
        /\ promises[i].timeout = 6500

RECURSIVE registerPublished(_, _)
registerPublished(reg, values) ==
    IF values = <<>> THEN reg
    ELSE LET d  == Descriptor(values[1])
             r1 == IF d.isGit
                   THEN setLongestName(
                            setLongestName(reg, "branch", Len(d.branch)),
                            "stateDisplay", Len(d.stateDisplay))
                   ELSE reg
             r2 == IF d.isGit /\ d.remoteOriginUrl # <<>>
                   THEN setLongestName(r1, "remoteOriginUrl",
                                       Len(d.remoteOriginUrl[1]))
                   ELSE r1
         IN  registerPublished(r2, Tail(values))

\* the lines the report would show were the widths those of the published
\* descriptors alone
LinesOfPublished ==
    LET reg == registerFolders(registerPublished(<<>>, descriptorsHashMap),
                               descriptors)
    IN  [k \in 1..Len(descriptors) |-> toString(Row(k), reg)]

\* C21: the result of a task that returns once its folder is in the result map,
\* or once the report is printed, is discarded: the printed lines are those the
\* published descriptors alone give, rows, order, texts and pad widths.
C21_LateResultsDiscarded ==
    Reported => output = LinesOfPublished

\* the printed rows of git folders
GitRows == {k \in 1..Len(descriptors) : Row(k).isGit}

\* C22: in the printed report no text of a git row is longer than the width
\* its column is padded to, the placeholder of an absent remote included, so
\* the git rows agree in the length of every column, and all rows in the
\* length of the folder-name column.
C22_RowsAligned ==
    Reported =>
        /\ Len(output) = Len(descriptors)
        /\ \A k \in GitRows :
              \A key \in {"folder", "branch", "stateDisplay", "remoteOriginUrl"} :
                  FieldLength(Row(k), key) <= getLongestName(longestName, key)
        /\ \A j, k \in GitRows :
              \A c \in 1..3 : Len(output[j].parts[c]) = Len(output[k].parts[c])
        /\ \A j, k \in 1..Len(output) :
              Len(output[j].nameDisplay) = Len(output[k].nameDisplay)

\* the tasks of the folders that have no .git entry
PlainTasks == {i \in DOMAIN promises : ~RepoAt(promises[i].name).isGit}

\* C23: the task of a folder without .git is waiting for its stat or has
\* returned, never in a git command; its descriptor has isGit false and every
\* other field as created, but for timeEnd, assigned when it returns; the step
\* in which it returns leaves the width registry as it was.
C23_NonGitShortCircuit ==
    /\ [](\A i \in PlainTasks :
            /\ promises[i].pc \in {"stat", "done"}
            /\ promises[i] = [NewTask(promises[i].name) EXCEPT
                                 !.pc = promises[i].pc,
                                 !.timeEnd = (promises[i].pc = "done")])
    /\ [][\A i \in PlainTasks :
            promises'[i] # promises[i] =>
                /\ promises[i].pc = "stat" /\ promises'[i].pc = "done"
                /\ ~promises'[i].isGit /\ promises'[i].timeEnd
                /\ resolvedPromises' = resolvedPromises + 1
                /\ longestName' = longestName]_vars

\* C23 witness: both tasks of a folder without .git have returned, its
\* descriptor is in the result map, and the width registry is still empty.
C23_Witness ==
    \E i, j \in PlainTasks :
        /\ i # j /\ promises[i].name = promises[j].name
        /\ promises[i].pc = "done" /\ promises[j].pc = "done"
        /\ promises[i].name \in OwnKeys(descriptorsHashMap)
        /\ longestName = <<>>

\* C24: the tasks launched are, in launch order, one per folder reference in
\* enumerated order, then one per folder reference in the reversed order (the
\* reference at position i of n is task i and task 2n + 1 - i); the second
\* family is launched in one step, when the whole first family has been; once
\* main polls there are exactly two tasks per folder reference.
C24_TwoFamilies ==
    /\ [](LET n == Len(filteredFolders)
          IN  /\ Len(promises) \in {0, n, 2 * n}
              /\ \A i \in 1..n :
                    /\ i <= Len(promises) => promises[i].name = filteredFolders[i]
                    /\ Len(promises) = 2 * n =>
                          promises[2 * n + 1 - i].name = filteredFolders[i]
              /\ pcMain \in {"polling", "done"} => Len(promises) = 2 * n
              /\ pcMain = "readdir" => promises = <<>>)
    /\ [][Len(promises') # Len(promises) =>
            \/ /\ promises = <<>>
               /\ Len(promises') = Len(filteredFolders')
               /\ pcMain = "readdir"
            \/ /\ Len(promises) = Len(filteredFolders)
               /\ Len(promises') = 2 * Len(filteredFolders)
               /\ pcMain = "timer"
               /\ SubSeq(promises', 1, Len(promises)) = promises]_vars

\* C24 witness: main polls with four tasks launched for two different folders,
\* the last task being for the first folder.
C24_Witness ==
    /\ pcMain = "polling"
    /\ Len(filteredFolders) = 2
    /\ filteredFolders[1] # filteredFolders[2]
    /\ Len(promises) = 4
    /\ promises[4].name = filteredFolders[1]
    /\ promises[3].name = filteredFolders[2]

\* lstatSync(target/e).isDirectory() is true: the stat succeeds and reports a
\* directory
IsDirectory(e) == e.kind = "dir"

\* the folder references of the first n targets: for each target in turn, its
\* directories in the order of its listing
RECURSIVE DirectoriesOf(_)
DirectoriesOf(n) ==
    IF n = 0 THEN <<>>
    ELSE LET target == targets[n]
             dirs   == SelectSeq(disk[target].entries, IsDirectory)
         IN  DirectoriesOf(n - 1)
                \o [k \in 1..Len(dirs) |->
                       IF target = <<".">> THEN dirs[k].name
                       ELSE target \o <<"/">> \o dirs[k].name]

\* C25: once every target is listed, the enumerated sequence is, target by
\* target in the order given, the entries lstat reports as directories, in the
\* order of the listing; a file and an entry lstat fails on are left out; while
\* the targets are being listed the sequence is that of the targets listed.
C25_EnumerationOrder ==
    /\ pcMain \in {"timer", "polling", "done"} =>
            filteredFolders = DirectoriesOf(Len(targets))
    /\ pcMain = "readdir" => filteredFolders = DirectoriesOf(targetIdx - 1)
    /\ \A t \in Range(targets) :
            (\E k \in 1..Len(disk[t].entries) : disk[t].entries[k].kind = "nostat")
                => pcMain # "failed" \/ HasUnreadableTarget

\* C25 witness: the report is printed for two targets, one of them holding an
\* entry that cannot be examined before a directory; two folders were
\* enumerated, the one of the first target first.
C25_Witness ==
    /\ pcMain = "done"
    /\ Len(targets) = 2 /\ targets[1] # targets[2]
    /\ Len(filteredFolders) = 2
    /\ Len(disk[targets[1]].entries) = 2
    /\ disk[targets[1]].entries[1].kind = "nostat"
    /\ filteredFolders[1] = FolderName(targets[1], disk[targets[1]].entries[2].name)
    /\ \E k \in 1..Len(disk[targets[2]].entries) :
          disk[targets[2]].entries[k].kind = "file"

\* C26: the test "already published" is true of a folder only when a
\* descriptor of that folder has been inserted: a task that has returned, and
\* so has gone through the callback, or that has left its retry loop by the
\* early exit, has its folder among the keys inserted in the result map.
C26_PublishedMeansInserted ==
    \A i \in DOMAIN promises :
        (promises[i].pc = "done" \/ promises[i].exit = "cancelled") =>
            promises[i].name \in OwnKeys(descriptorsHashMap)

\* C27: the descriptor the result map holds for a folder never comes from a
\* task that abandoned its divergence check by the early exit: for a git
\* folder it comes from a task whose loop ended by a successful round or by
\* the failure of all its rounds, or that had no remote; a needsGitPull false
\* in it is the answer of a successful round, or the default kept after
\* attemptsMax failed rounds or without a remote.
C27_CancelledNeverRetained ==
    \A k \in 1..Len(descriptorsHashMap) :
        LET d == Descriptor(descriptorsHashMap[k])
        IN  /\ d.exit # "cancelled"
            /\ d.isGit => d.exit \in {"success", "exhausted", "noremote"}
            /\ (d.isGit /\ ~d.needsGitPull) =>
                  \/ d.exit = "success" /\ ~RepoAt(d.name).behind
                  \/ d.exit = "exhausted" /\ d.rounds = attemptsMax
                  \/ d.exit = "noremote" /\ ~Truthy(d.remoteOriginUrl)

\* C27 witness: the report shows needsGitPull false for a repository that is
\* behind its remote, from the task whose ten rounds failed, while the other
\* task of the folder abandoned its check and returned.
C27_Witness ==
    /\ Reported
    /\ Len(descriptors) = 1
    /\ Row(1).exit = "exhausted" /\ ~Row(1).needsGitPull
    /\ RepoAt(Row(1).name).behind
    /\ \E i \in TasksOf(Row(1).name) :
          promises[i].exit = "cancelled" /\ promises[i].pc = "done"

\* the descriptor one task returns for a folder whose probes give the same
\* outcome each time, the task never finding its folder published
ScanDescriptor(name) ==
    LET r   == RepoAt(name)
        ok(probe) == probe \notin r.failing
        url == IF ok("remote") THEN r.remote ELSE <<>>
        d0  == [NewTask(name) EXCEPT !.pc = "done", !.timeEnd = TRUE]
        d1  == [d0 EXCEPT
                  !.isGit = TRUE, !.branch = r.branch, !.isDirty = r.dirty,
                  !.remoteOriginUrl = url,
                  !.hasUntracked = r.untracked,
                  !.hasPendingChangesFromTrackedFiles = ok("diff") /\ r.unstaged,
                  !.needsGitCommit = ok("staged") /\ r.staged,
                  !.needsGitPush = ok("push") /\ r.ahead,
                  !.needsGitPull = Truthy(url) /\ ok("fetch") /\ r.behind,
                  !.isInMergeState = ok("merge") /\ r.merging]
        parts == stateDisplayParts(d1, options.shortStatusDisplay)
    IN  IF ~r.isGit THEN d0
        ELSE [d1 EXCEPT !.stateDisplayParts = <<parts>>,
                        !.stateDisplay =
                            stateDisplay(parts, options.shortStatusDisplay)]

\* the names of the rows a single scan prints: the folders kept by the filters
ScanKept == {name \in Range(filteredFolders) : keep(ScanDescriptor(name))}

\* the rows of a single scan in printing order: folders without .git first,
\* each group by name
ScanOrder ==
    CHOOSE seq \in [1..Cardinality(ScanKept) -> ScanKept] :
        /\ \A j, k \in DOMAIN seq : seq[j] = seq[k] => j = k
        /\ \A j, k \in DOMAIN seq :
              j < k => compare(ScanDescriptor(seq[j]), ScanDescriptor(seq[k])) < 0

\* the largest of the lengths in S, 0 when there is none
Widest(S) == IF S = {} THEN 0 ELSE MaxOf(S)

\* the width registry when a single scan prints: the branch, state label and
\* remote URL of every repository, the name of every folder kept
ScanRegistry ==
    LET git == {ScanDescriptor(name) :
                   name \in {n \in Range(filteredFolders) : RepoAt(n).isGit}}
    IN  [key \in {"folder", "branch", "stateDisplay", "remoteOriginUrl"} |->
            CASE key = "folder" -> Widest({Len(name) : name \in ScanKept})
              [] key = "branch" -> Widest({Len(d.branch) : d \in git})
              [] key = "stateDisplay" -> Widest({Len(d.stateDisplay) : d \in git})
              [] key = "remoteOriginUrl" ->
                    Widest({Len(d.remoteOriginUrl[1]) :
                               d \in {e \in git : e.remoteOriginUrl # <<>>}})]

\* the report of a single forward scan
ScanReport ==
    [k \in 1..Cardinality(ScanKept) |->
        toString(ScanDescriptor(ScanOrder[k]), ScanRegistry)]

\* C28: when the probes of every folder give the same outcome each time they
\* are run, the printed report is the report of a single forward scan, rows,
\* order, texts and pad widths, whatever the order in which the tasks of the
\* two families ran and returned.
C28_HedgingTransparent ==
    Reported =>
        /\ output = ScanReport
        /\ \A k \in 1..Len(descriptors) :
              [Row(k) EXCEPT !.attempts = 0, !.timeout = 0, !.rounds = 0,
                             !.exit = "none"]
                = ScanDescriptor(ScanOrder[k])

\* C28 witness: a report of two repositories is printed after the redundant
\* task of the one that has commits to pull and to push abandoned its
\* divergence check and returned with a shorter state label.
C28_Witness ==
    /\ Reported
    /\ Len(output) = 2
    /\ \E k \in 1..2 :
          /\ Row(k).needsGitPull /\ Row(k).needsGitPush
          /\ \E i \in TasksOf(Row(k).name) :
                /\ promises[i].pc = "done" /\ promises[i].exit = "cancelled"
                /\ Len(promises[i].stateDisplay) < Len(Row(k).stateDisplay)

====
